---- MODULE Spec2Model ----
(***************************************************************************)
(* Task lifecycle and checkpoint persistence of the transfer engine:       *)
(* the service layer (httpserver/service/service_task.rs), the in-memory   *)
(* registries and the checkpoint snapshotter (tasks/task_server.rs), the   *)
(* RocksDB adapter (resources/resource_rocksdb.rs) and the process         *)
(* bootstrap (cmd/rootcmd.rs).                                             *)
(***************************************************************************)
EXTENDS Naturals, Sequences, FiniteSets, TLC

VARIABLES
    phase,                            \* "boot": cmd_match before the servers run; "serving";
                                      \* "exit(0)", "exit(1)": the signal thread has called exit
    cf_task,                          \* column family CF_TASK: key -> JSON of a Task
    cf_task_status,                   \* column family CF_TASK_STATUS: key -> encoded TaskStatus
    cf_task_checkpoints,              \* column family CF_TASK_CHECKPOINTS: key -> encoded CheckPoint
    meta_dirs,                        \* the metadata directories that exist on disk
    GLOBAL_LIVING_TRANSFER_TASK_MAP,  \* task id -> live status
    GLOBAL_TASK_STOP_MARK_MAP,        \* task id -> stop flag
    GLOBAL_TASKS_EXEC_JOINSET,        \* task ids that own a worker set
    GLOBAL_LIST_FILE_POSITON_MAP,     \* position key -> FilePosition
    executions,                       \* futures spawned on GLOBAL_TASK_RUNTIME: task id -> state -> count
    lastCall                          \* the call the last step made, and what it returned: a
                                      \* service call, or the snapshotter's call of its cycle

vars == <<phase, cf_task, cf_task_status, cf_task_checkpoints, meta_dirs,
          GLOBAL_LIVING_TRANSFER_TASK_MAP, GLOBAL_TASK_STOP_MARK_MAP,
          GLOBAL_TASKS_EXEC_JOINSET, GLOBAL_LIST_FILE_POSITON_MAP,
          executions, lastCall>>

store == <<cf_task, cf_task_status, cf_task_checkpoints>>

registries == <<GLOBAL_LIVING_TRANSFER_TASK_MAP, GLOBAL_TASK_STOP_MARK_MAP,
                GLOBAL_TASKS_EXEC_JOINSET, GLOBAL_LIST_FILE_POSITON_MAP>>

-----------------------------------------------------------------------------
(* Bounds of the model *)

\* The largest offset a worker reports.
MaxOffset == 2

\* The most futures of task executions alive at once on the task runtime.
MaxExec == 2

\* The longest id list handed to service_remove_task.
MaxRemove == 2

-----------------------------------------------------------------------------
(* Values *)

\* "t1" is a string prefix of "t10".
TaskIds == {"t1", "t10"}

WorkerIds == {"w1", "w2"}

\* The workers a task fans out to.
WorkersOf(t) == IF t = "t1" THEN WorkerIds ELSE {"w1"}

\* DashMap::insert, put_cf: the map with key k bound to v.
insert(map, k, v) == [x \in DOMAIN map \cup {k} |-> IF x = k THEN v ELSE map[x]]

\* DashMap::remove, delete_cf: the map without key k.
remove(map, k) == [x \in DOMAIN map \ {k} |-> map[x]]

\* A map with no entry.
EmptyMap == [x \in {} |-> x]

GlobalMetaDir == "meta"

\* The lifecycle states of a task; Stopped carries its reason.
StoppedStates == {"Stopped(UserRequested)", "Stopped(Completed)", "Stopped(ProcessTerminating)"}

FilePosition(o, l) == [offset |-> o, line_num |-> l]

\* What workers report: a worker that has confirmed o bytes has confirmed o lines.
ReportedPositions == {FilePosition(o, o) : o \in 1..MaxOffset}

ExecStates == {"spawned", "starting", "running", "stopping"}

\* commons::gen_file_path(dir, name, ""): the path of name under dir.
gen_file_path(dir, name) == dir \o "/" \o name

\* The Position Tracker's key of a worker of a task.
PositionKey(t, w) == t \o "_" \o w

PositionKeys == UNION {{PositionKey(t, w) : w \in WorkersOf(t)} : t \in TaskIds}

\* str::starts_with
starts_with(key, prefix) ==
    /\ Len(key) >= Len(prefix)
    /\ SubSeq(key, 1, Len(prefix)) = prefix

-----------------------------------------------------------------------------
(* Encodings of the Durable Store *)

\* commons::struct_to_json_string of a Task: its fields as name/value pairs.
struct_to_json_string(task) ==
    << <<"task_id", task.task_id>>, <<"meta_dir", task.meta_dir>>, <<"config", task.config>> >>

\* commons::json_to_struct::<Task>
json_to_struct(json) ==
    [task_id |-> json[1][2], meta_dir |-> json[2][2], config |-> json[3][2]]

\* bincode::serialize of a CheckPoint: its fields in declaration order.
serialize_checkpoint(c) ==
    <<c.task_id, c.executing_file_position.offset, c.executing_file_position.line_num>>

\* A decoding that reads the two numbers of the position in the other order.
deserialize_checkpoint_swapped(b) ==
    [task_id |-> b[1], executing_file_position |-> FilePosition(b[3], b[2])]

\* bincode::deserialize::<CheckPoint>
deserialize_checkpoint(b) ==
    [task_id |-> b[1], executing_file_position |-> FilePosition(b[2], b[3])]

\* bincode::serialize of a TaskStatus.
serialize_status(s) == <<s.task_id, s.status>>

\* bincode::deserialize::<TaskStatus>
deserialize_status(b) == [task_id |-> b[1], status |-> b[2]]

-----------------------------------------------------------------------------
(* resources/resource_rocksdb.rs *)

\* save_checkpoint_to_cf: the column family after the put under checkpoint.task_id.
save_checkpoint_to_cf(cf, checkpoint) ==
    insert(cf, checkpoint.task_id, serialize_checkpoint(checkpoint))

\* get_checkpoint: the stored checkpoint, or the error "checkpoint not exist".
get_checkpoint(cf, task_id) ==
    IF task_id \notin DOMAIN cf
    THEN [ok |-> FALSE, err |-> "NotFound"]
    ELSE [ok |-> TRUE, value |-> deserialize_checkpoint(cf[task_id])]

\* get_task: the stored definition, or the error "task {} not exist".
get_task(cf, task_id) ==
    IF task_id \notin DOMAIN cf
    THEN [ok |-> FALSE, err |-> "NotFound"]
    ELSE [ok |-> TRUE, value |-> json_to_struct(cf[task_id])]

\* save_task_status (of the store): the column family after the put under status.task_id.
save_task_status_to_cf(cf, status) ==
    insert(cf, status.task_id, serialize_status(status))

is_stopped(status) == status.status \in StoppedStates

\* IteratorMode::Start: the keys of a column family in byte order.
KeyOrder == <<"t1", "t10">>

\* The iteration of living_tasks over the keys left.
RECURSIVE living_tasks_from(_, _)
living_tasks_from(keys, cf) ==
    IF keys = <<>> THEN <<>>
    ELSE IF Head(keys) \notin DOMAIN cf THEN living_tasks_from(Tail(keys), cf)
    ELSE LET status == deserialize_status(cf[Head(keys)]) IN
         IF ~is_stopped(status)
         THEN <<status>> \o living_tasks_from(Tail(keys), cf)
         ELSE living_tasks_from(Tail(keys), cf)

\* living_tasks: the stored statuses that are not Stopped, in key order.
living_tasks(cf) == living_tasks_from(KeyOrder, cf)

\* The task ids of living_tasks.
LivingIds(cf) == {living_tasks(cf)[i].task_id : i \in 1..Len(living_tasks(cf))}

-----------------------------------------------------------------------------
(* tasks/task_server.rs: the registries *)

\* save_task_status (of the live map): insert or overwrite.
save_task_status(map, task_id, task_status) == insert(map, task_id, task_status)

\* log_out_living_task that leaves the entry in the map.
log_out_living_task_keeps_entry(map, task_id) == map

\* log_out_living_task
log_out_living_task(map, task_id) == remove(map, task_id)

\* task_is_living
task_is_living(task_id) ==
    IF task_id \notin DOMAIN GLOBAL_LIVING_TRANSFER_TASK_MAP
    THEN FALSE
    ELSE GLOBAL_LIVING_TRANSFER_TASK_MAP[task_id] \notin StoppedStates

\* remove_exec_joinset
remove_exec_joinset(set, task_id) == set \ {task_id}

-----------------------------------------------------------------------------
(* The futures on GLOBAL_TASK_RUNTIME *)

NumExec(t) ==
    executions[t]["spawned"] + executions[t]["starting"]
        + executions[t]["running"] + executions[t]["stopping"]

RECURSIVE SumExec(_)
SumExec(S) ==
    IF S = {} THEN 0
    ELSE LET t == CHOOSE x \in S : TRUE IN NumExec(t) + SumExec(S \ {t})

\* One future of task t moves from state a to state b.
MoveExec(t, a, b) ==
    [executions EXCEPT ![t] = [@ EXCEPT ![a] = @ - 1, ![b] = @ + 1]]

\* GLOBAL_TASK_RUNTIME.spawn(task.execute())
SpawnExec(t) == [executions EXCEPT ![t]["spawned"] = @ + 1]

\* A future of task t in state a has returned.
EndExec(t, a) == [executions EXCEPT ![t][a] = @ - 1]

NoExecutions == [t \in TaskIds |-> [s \in ExecStates |-> 0]]

\* A call's arguments are a list of task ids; the snapshotter's call of its cycle
\* takes none, and the list holds the task ids the cycle logged an error for.
NoCall == [op |-> "none", arg |-> <<>>, res |-> ""]

Call(op, arg, res) == [op |-> op, arg |-> arg, res |-> res]

-----------------------------------------------------------------------------
Init ==
    /\ phase = "boot"
    /\ cf_task = EmptyMap
    /\ cf_task_status = EmptyMap
    /\ cf_task_checkpoints = EmptyMap
    /\ meta_dirs = {}
    /\ GLOBAL_LIVING_TRANSFER_TASK_MAP = EmptyMap
    /\ GLOBAL_TASK_STOP_MARK_MAP = EmptyMap
    /\ GLOBAL_TASKS_EXEC_JOINSET = {}
    /\ GLOBAL_LIST_FILE_POSITON_MAP = EmptyMap
    /\ executions = NoExecutions
    /\ lastCall = NoCall

-----------------------------------------------------------------------------
(* cmd/rootcmd.rs: the start subcommand *)

\* resources::init_resources, restart reconciliation: every stored status that is
\* not Stopped is re-marked Stopped(ProcessTerminating).
init_resources(cf) ==
    [t \in DOMAIN cf |->
        IF ~is_stopped(deserialize_status(cf[t]))
        THEN serialize_status([task_id |-> deserialize_status(cf[t]).task_id,
                               status |-> "Stopped(ProcessTerminating)"])
        ELSE cf[t]]

\* cmd_match that brings the servers up without init_resources having run.
cmd_match_without_init_resources ==
    /\ phase = "boot"
    /\ phase' = "serving"
    /\ lastCall' = NoCall
    /\ UNCHANGED <<store, meta_dirs, registries, executions>>

\* cmd_match, start: block_on(init_resources()), and only then the status server
\* is spawned and the http thread started.
cmd_match ==
    /\ phase = "boot"
    /\ cf_task_status' = init_resources(cf_task_status)
    /\ phase' = "serving"
    /\ lastCall' = NoCall
    /\ UNCHANGED <<cf_task, cf_task_checkpoints, meta_dirs, registries, executions>>

\* signal_hook's TERM_SIGNALS the signal thread listens to.
TermSignals == {"SIGTERM", "SIGINT"}

\* A signal thread that exits on SIGTERM before it has set the stop flags.
signal_thread_exits_first(signal) ==
    /\ phase = "serving"
    /\ GLOBAL_TASK_STOP_MARK_MAP' =
           IF signal = "SIGTERM" THEN GLOBAL_TASK_STOP_MARK_MAP
           ELSE [t \in DOMAIN GLOBAL_TASK_STOP_MARK_MAP |-> TRUE]
    /\ phase' = IF signal = "SIGTERM" THEN "exit(1)" ELSE "exit(0)"
    /\ lastCall' = NoCall
    /\ UNCHANGED <<store, meta_dirs, GLOBAL_LIVING_TRANSFER_TASK_MAP,
                   GLOBAL_TASKS_EXEC_JOINSET, GLOBAL_LIST_FILE_POSITON_MAP, executions>>

\* The signal thread's handling of one termination signal: every stop flag in the
\* map is stored true, then exit(1) on SIGTERM and exit(0) on any other signal.
signal_thread(signal) ==
    /\ phase = "serving"
    /\ GLOBAL_TASK_STOP_MARK_MAP' = [t \in DOMAIN GLOBAL_TASK_STOP_MARK_MAP |-> TRUE]
    /\ phase' = IF signal = "SIGTERM" THEN "exit(1)" ELSE "exit(0)"
    /\ lastCall' = NoCall
    /\ UNCHANGED <<store, meta_dirs, GLOBAL_LIVING_TRANSFER_TASK_MAP,
                   GLOBAL_TASKS_EXEC_JOINSET, GLOBAL_LIST_FILE_POSITON_MAP, executions>>

\* The process is gone (a kill or a crash while it serves, or the exit the signal
\* thread called): the registries and the runtime's futures are gone, the store
\* and the disk stay.
ProcessDeath ==
    /\ phase # "boot"
    /\ phase' = "boot"
    /\ GLOBAL_LIVING_TRANSFER_TASK_MAP' = EmptyMap
    /\ GLOBAL_TASK_STOP_MARK_MAP' = EmptyMap
    /\ GLOBAL_TASKS_EXEC_JOINSET' = {}
    /\ GLOBAL_LIST_FILE_POSITON_MAP' = EmptyMap
    /\ executions' = NoExecutions
    /\ lastCall' = NoCall
    /\ UNCHANGED <<store, meta_dirs>>

-----------------------------------------------------------------------------
(* httpserver/service/service_task.rs *)

\* The definitions a client sends.
InputTasks ==
    {[task_id |-> i, meta_dir |-> d, config |-> c] :
        i \in TaskIds, d \in {"", "elsewhere"}, c \in {"c1", "c2"}}

\* Task::create: the definition is stored under its id with its derived metadata
\* directory, which is created.
service_task_create(task) ==
    /\ phase = "serving"
    /\ task.task_id \notin DOMAIN cf_task
    /\ LET meta_dir == gen_file_path(GlobalMetaDir, task.task_id) IN
        /\ cf_task' = insert(cf_task, task.task_id,
                             struct_to_json_string([task EXCEPT !.meta_dir = meta_dir]))
        /\ meta_dirs' = meta_dirs \cup {meta_dir}
    /\ lastCall' = Call("create_task", <<task.task_id>>, "Ok")
    /\ UNCHANGED <<phase, cf_task_status, cf_task_checkpoints, registries, executions>>

\* A removal loop that goes on to the ids left after a remove_dir has failed.
RECURSIVE remove_loop_goes_on(_, _, _)
remove_loop_goes_on(task_ids, cf, dirs) ==
    IF task_ids = <<>>
    THEN [cf |-> cf, dirs |-> dirs, res |-> "Ok"]
    ELSE LET id == Head(task_ids)
             meta_dir == gen_file_path(GlobalMetaDir, id)
             deleted == remove(cf, id)
         IN IF meta_dir \notin dirs
            THEN [remove_loop_goes_on(Tail(task_ids), deleted, dirs)
                      EXCEPT !.res = "FilesystemError"]
            ELSE remove_loop_goes_on(Tail(task_ids), deleted, dirs \ {meta_dir})

\* The loop of service_remove_task over the ids left: delete_cf, then remove_dir,
\* whose error ends the loop.
RECURSIVE remove_loop(_, _, _)
remove_loop(task_ids, cf, dirs) ==
    IF task_ids = <<>>
    THEN [cf |-> cf, dirs |-> dirs, res |-> "Ok"]
    ELSE LET id == Head(task_ids)
             meta_dir == gen_file_path(GlobalMetaDir, id)
             deleted == remove(cf, id)
         IN IF meta_dir \notin dirs
            THEN [cf |-> deleted, dirs |-> dirs, res |-> "FilesystemError"]
            ELSE remove_loop(Tail(task_ids), deleted, dirs \ {meta_dir})

service_remove_task(task_ids) ==
    /\ phase = "serving"
    /\ LET r == remove_loop(task_ids, cf_task, meta_dirs) IN
        /\ cf_task' = r.cf
        /\ meta_dirs' = r.dirs
        /\ lastCall' = Call("remove_tasks", task_ids, r.res)
    /\ UNCHANGED <<phase, cf_task_status, cf_task_checkpoints, registries, executions>>

\* An update that stores the definition with the id and the directory it came with.
service_update_task_as_supplied(task_id, task) ==
    /\ phase = "serving"
    /\ cf_task' = insert(cf_task, task_id, struct_to_json_string(task))
    /\ lastCall' = Call("update_task", <<task_id>>, "Ok")
    /\ UNCHANGED <<phase, cf_task_status, cf_task_checkpoints, meta_dirs, registries, executions>>

service_update_task(task_id, task) ==
    /\ phase = "serving"
    /\ LET meta_dir == gen_file_path(GlobalMetaDir, task_id)
           updated == [task EXCEPT !.task_id = task_id, !.meta_dir = meta_dir]
       IN cf_task' = insert(cf_task, task_id, struct_to_json_string(updated))
    /\ lastCall' = Call("update_task", <<task_id>>, "Ok")
    /\ UNCHANGED <<phase, cf_task_status, cf_task_checkpoints, meta_dirs, registries, executions>>

\* service_start_task that checks liveness before it looks the definition up.
service_start_task_liveness_first(task_id) ==
    /\ phase = "serving"
    /\ IF task_is_living(task_id)
       THEN /\ lastCall' = Call("start_task", <<task_id>>, "AlreadyLive")
            /\ UNCHANGED executions
       ELSE LET task == get_task(cf_task, task_id) IN
            IF ~task.ok
            THEN /\ lastCall' = Call("start_task", <<task_id>>, task.err)
                 /\ UNCHANGED executions
            ELSE /\ SumExec(TaskIds) < MaxExec
                 /\ executions' = SpawnExec(task_id)
                 /\ lastCall' = Call("start_task", <<task_id>>, "Ok")
    /\ UNCHANGED <<phase, store, meta_dirs, registries>>

service_start_task(task_id) ==
    /\ phase = "serving"
    /\ LET task == get_task(cf_task, task_id) IN
        IF ~task.ok
        THEN /\ lastCall' = Call("start_task", <<task_id>>, task.err)
             /\ UNCHANGED executions
        ELSE IF task_is_living(task_id)
        THEN /\ lastCall' = Call("start_task", <<task_id>>, "AlreadyLive")
             /\ UNCHANGED executions
        ELSE /\ SumExec(TaskIds) < MaxExec
             /\ executions' = SpawnExec(task_id)
             /\ lastCall' = Call("start_task", <<task_id>>, "Ok")
    /\ UNCHANGED <<phase, store, meta_dirs, registries>>

\* Task::stop: the stop flag of the task is set.
Task_stop(map, task_id) ==
    IF task_id \notin DOMAIN map
    THEN [map |-> map, res |-> "StopMarkNotExist"]
    ELSE [map |-> insert(map, task_id, TRUE), res |-> "Ok"]

\* service_stop_task without its liveness check.
service_stop_task_unchecked(task_id) ==
    /\ phase = "serving"
    /\ LET task == get_task(cf_task, task_id) IN
        IF ~task.ok
        THEN /\ lastCall' = Call("stop_task", <<task_id>>, task.err)
             /\ UNCHANGED GLOBAL_TASK_STOP_MARK_MAP
        ELSE LET r == Task_stop(GLOBAL_TASK_STOP_MARK_MAP, task_id) IN
             /\ GLOBAL_TASK_STOP_MARK_MAP' = r.map
             /\ lastCall' = Call("stop_task", <<task_id>>, r.res)
    /\ UNCHANGED <<phase, store, meta_dirs, GLOBAL_LIVING_TRANSFER_TASK_MAP,
                   GLOBAL_TASKS_EXEC_JOINSET, GLOBAL_LIST_FILE_POSITON_MAP, executions>>

service_stop_task(task_id) ==
    /\ phase = "serving"
    /\ IF ~task_is_living(task_id)
       THEN /\ lastCall' = Call("stop_task", <<task_id>>, "NotLiving")
            /\ UNCHANGED GLOBAL_TASK_STOP_MARK_MAP
       ELSE LET task == get_task(cf_task, task_id) IN
            IF ~task.ok
            THEN /\ lastCall' = Call("stop_task", <<task_id>>, task.err)
                 /\ UNCHANGED GLOBAL_TASK_STOP_MARK_MAP
            ELSE LET r == Task_stop(GLOBAL_TASK_STOP_MARK_MAP, task_id) IN
                 /\ GLOBAL_TASK_STOP_MARK_MAP' = r.map
                 /\ lastCall' = Call("stop_task", <<task_id>>, r.res)
    /\ UNCHANGED <<phase, store, meta_dirs, GLOBAL_LIVING_TRANSFER_TASK_MAP,
                   GLOBAL_TASKS_EXEC_JOINSET, GLOBAL_LIST_FILE_POSITON_MAP, executions>>

-----------------------------------------------------------------------------
(* Task::execute, the future service_start_task spawns, and its workers *)

StatusOf(t, state) == [task_id |-> t, status |-> state]

\* The future starts to run: it registers a fresh stop flag and an empty worker
\* set, and records Starting in the live map and in the store.
Task_execute_begin(t) ==
    /\ phase = "serving"
    /\ executions[t]["spawned"] > 0
    /\ executions' = MoveExec(t, "spawned", "starting")
    /\ GLOBAL_TASK_STOP_MARK_MAP' = insert(GLOBAL_TASK_STOP_MARK_MAP, t, FALSE)
    /\ GLOBAL_TASKS_EXEC_JOINSET' = GLOBAL_TASKS_EXEC_JOINSET \cup {t}
    /\ GLOBAL_LIVING_TRANSFER_TASK_MAP' =
           save_task_status(GLOBAL_LIVING_TRANSFER_TASK_MAP, t, "Starting")
    /\ cf_task_status' = save_task_status_to_cf(cf_task_status, StatusOf(t, "Starting"))
    /\ lastCall' = NoCall
    /\ UNCHANGED <<phase, cf_task, cf_task_checkpoints, meta_dirs,
                   GLOBAL_LIST_FILE_POSITON_MAP>>

\* The root worker has initialised: Running, and the task's checkpoint record
\* exists from here on (a resumed task keeps the one it has).
Task_execute_running(t) ==
    /\ phase = "serving"
    /\ executions[t]["starting"] > 0
    /\ executions' = MoveExec(t, "starting", "running")
    /\ GLOBAL_LIVING_TRANSFER_TASK_MAP' =
           save_task_status(GLOBAL_LIVING_TRANSFER_TASK_MAP, t, "Running")
    /\ cf_task_status' = save_task_status_to_cf(cf_task_status, StatusOf(t, "Running"))
    /\ cf_task_checkpoints' =
           IF get_checkpoint(cf_task_checkpoints, t).ok
           THEN cf_task_checkpoints
           ELSE save_checkpoint_to_cf(cf_task_checkpoints,
                    [task_id |-> t, executing_file_position |-> FilePosition(0, 0)])
    /\ lastCall' = NoCall
    /\ UNCHANGED <<phase, cf_task, meta_dirs, GLOBAL_TASK_STOP_MARK_MAP,
                   GLOBAL_TASKS_EXEC_JOINSET, GLOBAL_LIST_FILE_POSITON_MAP>>

\* The stop flag of task t is set: what a worker's poll of it reads.
is_signaled(t) ==
    /\ t \in DOMAIN GLOBAL_TASK_STOP_MARK_MAP
    /\ GLOBAL_TASK_STOP_MARK_MAP[t]

\* A worker of a running task reports its position. A worker's reports do not
\* decrease, and a worker takes up work at or after the task's resume cursor.
Worker_report(t, w, pos) ==
    /\ phase = "serving"
    /\ executions[t]["running"] > 0
    /\ ~is_signaled(t)
    /\ LET key == PositionKey(t, w) IN
        /\ IF key \in DOMAIN GLOBAL_LIST_FILE_POSITON_MAP
           THEN pos.offset > GLOBAL_LIST_FILE_POSITON_MAP[key].offset
           ELSE /\ get_checkpoint(cf_task_checkpoints, t).ok
                /\ pos.offset >=
                     get_checkpoint(cf_task_checkpoints, t).value.executing_file_position.offset
        /\ GLOBAL_LIST_FILE_POSITON_MAP' = insert(GLOBAL_LIST_FILE_POSITON_MAP, key, pos)
    /\ lastCall' = NoCall
    /\ UNCHANGED <<phase, store, meta_dirs, GLOBAL_LIVING_TRANSFER_TASK_MAP,
                   GLOBAL_TASK_STOP_MARK_MAP, GLOBAL_TASKS_EXEC_JOINSET, executions>>

\* A worker has seen the stop flag set, or the work is done: Stopping.
Task_execute_stopping(t) ==
    /\ phase = "serving"
    /\ executions[t]["running"] > 0
    /\ executions' = MoveExec(t, "running", "stopping")
    /\ GLOBAL_LIVING_TRANSFER_TASK_MAP' =
           save_task_status(GLOBAL_LIVING_TRANSFER_TASK_MAP, t, "Stopping")
    /\ cf_task_status' = save_task_status_to_cf(cf_task_status, StatusOf(t, "Stopping"))
    /\ lastCall' = NoCall
    /\ UNCHANGED <<phase, cf_task, cf_task_checkpoints, meta_dirs, GLOBAL_TASK_STOP_MARK_MAP,
                   GLOBAL_TASKS_EXEC_JOINSET, GLOBAL_LIST_FILE_POSITON_MAP>>

\* A teardown that leaves the tracker as it is.
prune_positions_keeps_entries(map, t) == map

\* The Position Tracker without the entries of the workers of task t.
prune_positions(map, t) ==
    [k \in DOMAIN map \ {PositionKey(t, w) : w \in WorkersOf(t)} |-> map[k]]

\* The workers have all exited: Stopped with its reason is stored, and the task's
\* entries leave the live map, the worker sets, the stop flags and the tracker.
Task_execute_stopped(t) ==
    /\ phase = "serving"
    /\ executions[t]["stopping"] > 0
    /\ executions' = EndExec(t, "stopping")
    /\ cf_task_status' = save_task_status_to_cf(cf_task_status,
           StatusOf(t, IF is_signaled(t) THEN "Stopped(UserRequested)"
                       ELSE "Stopped(Completed)"))
    /\ GLOBAL_LIVING_TRANSFER_TASK_MAP' = log_out_living_task(GLOBAL_LIVING_TRANSFER_TASK_MAP, t)
    /\ GLOBAL_TASKS_EXEC_JOINSET' = remove_exec_joinset(GLOBAL_TASKS_EXEC_JOINSET, t)
    /\ GLOBAL_TASK_STOP_MARK_MAP' = remove(GLOBAL_TASK_STOP_MARK_MAP, t)
    /\ GLOBAL_LIST_FILE_POSITON_MAP' = prune_positions(GLOBAL_LIST_FILE_POSITON_MAP, t)
    /\ lastCall' = NoCall
    /\ UNCHANGED <<phase, cf_task, cf_task_checkpoints, meta_dirs>>

-----------------------------------------------------------------------------
(* tasks/task_server.rs: the checkpoint snapshotter *)

\* The orders in which DashMap::iter may yield the keys the tracker holds.
KeyOrders ==
    LET keys == DOMAIN GLOBAL_LIST_FILE_POSITON_MAP IN
    {o \in [1..Cardinality(keys) -> keys] : \A i, j \in DOMAIN o : i # j => o[i] # o[j]}

\* The places in the iteration order of the entries that pass the filter.
matching(order, map, taskid) ==
    {i \in DOMAIN order : order[i] \in DOMAIN map /\ starts_with(order[i], taskid)}

\* file_position after the iterator chain: the map closure assigns it at every
\* entry that passes the filter, so it holds the last of them; min()'s result
\* is dropped.
file_position_after_iter(order, map, taskid) ==
    LET m == matching(order, map, taskid) IN
    IF m = {} THEN FilePosition(0, 0)
    ELSE map[order[CHOOSE i \in m : \A j \in m : j <= i]]

\* A snapshot loop that returns at the first checkpoint it cannot load or save.
RECURSIVE snapshot_loop_returns_at_error(_, _, _, _, _)
snapshot_loop_returns_at_error(statuses, cf, map, order, failed) ==
    IF statuses = <<>> THEN cf
    ELSE LET taskid == Head(statuses).task_id
             c == get_checkpoint(cf, taskid)
         IN IF ~c.ok \/ taskid \in failed
            THEN cf
            ELSE LET checkpoint == [c.value EXCEPT !.executing_file_position =
                                       file_position_after_iter(order, map, taskid)]
                 IN snapshot_loop_returns_at_error(Tail(statuses),
                        save_checkpoint_to_cf(cf, checkpoint), map, order, failed)

\* The loop of snapshot_living_tasks_checkpoints_to_cf over the statuses left;
\* failed holds the task ids whose save_to_rocksdb_cf returns an error in this
\* cycle. A checkpoint that cannot be loaded, or cannot be saved, is logged and
\* the loop goes on.
RECURSIVE snapshot_loop(_, _, _, _, _)
snapshot_loop(statuses, cf, map, order, failed) ==
    IF statuses = <<>> THEN cf
    ELSE LET taskid == Head(statuses).task_id
             c == get_checkpoint(cf, taskid)
         IN IF ~c.ok
            THEN snapshot_loop(Tail(statuses), cf, map, order, failed)
            ELSE LET checkpoint == [c.value EXCEPT !.executing_file_position =
                                       file_position_after_iter(order, map, taskid)]
                 IN IF taskid \in failed
                    THEN snapshot_loop(Tail(statuses), cf, map, order, failed)
                    ELSE snapshot_loop(Tail(statuses), save_checkpoint_to_cf(cf, checkpoint),
                                       map, order, failed)

snapshot_living_tasks_checkpoints_to_cf(order, failed) ==
    snapshot_loop(living_tasks(cf_task_status), cf_task_checkpoints,
                  GLOBAL_LIST_FILE_POSITON_MAP, order, failed)

\* The task ids for which a cycle logs an error, in the order of the loop: those
\* whose checkpoint cannot be loaded and those whose save fails.
logged_errors(statuses, cf, failed) ==
    SelectSeq([i \in 1..Len(statuses) |-> statuses[i].task_id],
              LAMBDA id : ~get_checkpoint(cf, id).ok \/ id \in failed)

\* One cycle of TasksStatusSaver::run, with the tracker iterated in the given
\* order and the saves of the given task ids failing; the call returns Ok, the
\* loop then sleeps and runs the next cycle.
snapshot_cycle(order, failed) ==
    /\ phase = "serving"
    /\ cf_task_checkpoints' = snapshot_living_tasks_checkpoints_to_cf(order, failed)
    /\ lastCall' = Call("snapshot",
                        logged_errors(living_tasks(cf_task_status), cf_task_checkpoints, failed),
                        "Ok")
    /\ UNCHANGED <<phase, cf_task, cf_task_status, meta_dirs, registries, executions>>

\* The task ids whose checkpoint a cycle loads and then saves.
saved_in_cycle ==
    {t \in LivingIds(cf_task_status) : get_checkpoint(cf_task_checkpoints, t).ok}

TasksStatusSaver_run ==
    \E order \in KeyOrders, failed \in SUBSET saved_in_cycle : snapshot_cycle(order, failed)

-----------------------------------------------------------------------------
\* The id lists a client hands to service_remove_task: distinct ids.
RemoveLists ==
    UNION {{l \in [1..n -> TaskIds] : \A i, j \in 1..n : i # j => l[i] # l[j]} :
              n \in 1..MaxRemove}

\* The task ids under which the clients of Spec store definitions; they call
\* start, stop and remove with every id.
Defined == {"t1"}

\* The definitions the clients of Spec send: one configuration.
DefinedInputs == {task \in InputTasks : task.config = "c1"}

Next ==
    \/ cmd_match
    \/ \E signal \in TermSignals : signal_thread(signal)
    \/ ProcessDeath
    \/ \E task \in DefinedInputs : task.task_id \in Defined /\ service_task_create(task)
    \/ \E ids \in RemoveLists : service_remove_task(ids)
    \/ \E t \in Defined, task \in DefinedInputs : service_update_task(t, task)
    \/ \E t \in TaskIds : service_start_task(t)
    \/ \E t \in TaskIds : service_stop_task(t)
    \/ \E t \in TaskIds : Task_execute_begin(t)
    \/ \E t \in TaskIds : Task_execute_running(t)
    \/ \E t \in TaskIds, pos \in ReportedPositions : \E w \in WorkersOf(t) : Worker_report(t, w, pos)
    \/ \E t \in TaskIds : Task_execute_stopping(t)
    \/ \E t \in TaskIds : Task_execute_stopped(t)
    \/ TasksStatusSaver_run

Spec == Init /\ [][Next]_vars

-----------------------------------------------------------------------------
(* The records of the store under every task id: checkpoints written and read *)
(* back, definitions stored, removed and listed                               *)

\* The process serves requests over an empty store.
InitServing ==
    /\ phase = "serving"
    /\ cf_task = EmptyMap
    /\ cf_task_status = EmptyMap
    /\ cf_task_checkpoints = EmptyMap
    /\ meta_dirs = {}
    /\ GLOBAL_LIVING_TRANSFER_TASK_MAP = EmptyMap
    /\ GLOBAL_TASK_STOP_MARK_MAP = EmptyMap
    /\ GLOBAL_TASKS_EXEC_JOINSET = {}
    /\ GLOBAL_LIST_FILE_POSITON_MAP = EmptyMap
    /\ executions = NoExecutions
    /\ lastCall = NoCall

\* The checkpoints a caller may hand to the store.
CheckPoints ==
    {[task_id |-> t, executing_file_position |-> FilePosition(o, l)] :
        t \in TaskIds, o \in 0..MaxOffset, l \in 0..MaxOffset}

\* CheckPoint::save_to_rocksdb_cf: the checkpoint is put under its task id.
CheckPoint_save_to_rocksdb_cf(checkpoint) ==
    /\ phase = "serving"
    /\ cf_task_checkpoints' = save_checkpoint_to_cf(cf_task_checkpoints, checkpoint)
    /\ lastCall' = Call("save_checkpoint", <<checkpoint>>, "Ok")
    /\ UNCHANGED <<phase, cf_task, cf_task_status, meta_dirs, registries, executions>>

\* service_task_checkpoint: what get_checkpoint returns for the id.
service_task_checkpoint(task_id) ==
    /\ phase = "serving"
    /\ lastCall' = Call("task_checkpoint", <<task_id>>,
                        get_checkpoint(cf_task_checkpoints, task_id))
    /\ UNCHANGED <<phase, store, meta_dirs, registries, executions>>

\* The loop of service_list_all_tasks over the keys left. The iterator yields an
\* error where the read of a record fails and is then done; the loop has no
\* branch for an error item, so the records pushed so far are the result.
RECURSIVE list_from(_, _, _)
list_from(keys, cf, failed) ==
    IF keys = <<>> THEN <<>>
    ELSE IF Head(keys) \notin DOMAIN cf THEN list_from(Tail(keys), cf, failed)
    ELSE IF Head(keys) \in failed THEN <<>>
    ELSE <<[cf_id |-> Head(keys), task |-> json_to_struct(cf[Head(keys)])]>>
             \o list_from(Tail(keys), cf, failed)

\* service_list_all_tasks returns Ok of what the loop pushed; failed holds the keys
\* whose read fails during this call.
service_list_all_tasks(failed) ==
    /\ phase = "serving"
    /\ lastCall' = Call("list_tasks", <<>>, list_from(KeyOrder, cf_task, failed))
    /\ UNCHANGED <<phase, store, meta_dirs, registries, executions>>

\* service_show_task: the stored definition, or the error "task {} not exist".
service_show_task(task_id) ==
    /\ phase = "serving"
    /\ lastCall' = Call("show_task", <<task_id>>, get_task(cf_task, task_id))
    /\ UNCHANGED <<phase, store, meta_dirs, registries, executions>>

\* The calls on the store of a process in which no task is started.
NextStore ==
    \/ \E checkpoint \in CheckPoints : CheckPoint_save_to_rocksdb_cf(checkpoint)
    \/ \E t \in TaskIds : service_task_checkpoint(t)
    \/ \E task \in InputTasks : service_task_create(task)
    \/ \E t \in TaskIds, task \in InputTasks : service_update_task(t, task)
    \/ \E ids \in RemoveLists : service_remove_task(ids)
    \/ \E failed \in SUBSET TaskIds : service_list_all_tasks(failed)
    \/ \E t \in TaskIds : service_show_task(t)

SpecStore == InitServing /\ [][NextStore]_vars

-----------------------------------------------------------------------------
(* Two tasks, each started once, under the snapshotter *)

\* Both definitions are stored and start_task has spawned one execution of each.
InitBothStarted ==
    /\ phase = "serving"
    /\ cf_task = [t \in TaskIds |->
                     struct_to_json_string([task_id |-> t,
                                            meta_dir |-> gen_file_path(GlobalMetaDir, t),
                                            config |-> "c1"])]
    /\ cf_task_status = EmptyMap
    /\ cf_task_checkpoints = EmptyMap
    /\ meta_dirs = {gen_file_path(GlobalMetaDir, t) : t \in TaskIds}
    /\ GLOBAL_LIVING_TRANSFER_TASK_MAP = EmptyMap
    /\ GLOBAL_TASK_STOP_MARK_MAP = EmptyMap
    /\ GLOBAL_TASKS_EXEC_JOINSET = {}
    /\ GLOBAL_LIST_FILE_POSITON_MAP = EmptyMap
    /\ executions = [t \in TaskIds |-> [s \in ExecStates |-> IF s = "spawned" THEN 1 ELSE 0]]
    /\ lastCall = NoCall

NextBothStarted ==
    \/ \E t \in TaskIds : Task_execute_begin(t)
    \/ \E t \in TaskIds : Task_execute_running(t)
    \/ \E t \in TaskIds, pos \in ReportedPositions : \E w \in WorkersOf(t) : Worker_report(t, w, pos)
    \/ \E t \in TaskIds : Task_execute_stopping(t)
    \/ \E t \in TaskIds : Task_execute_stopped(t)
    \/ TasksStatusSaver_run

SpecBothStarted == InitBothStarted /\ [][NextBothStarted]_vars

-----------------------------------------------------------------------------
(* Properties *)

\* The step is the service call op with the argument list arg.
StepIsCall(op, arg) == lastCall'.op = op /\ lastCall'.arg = arg

\* The futures of task t that have begun to run and have not returned.
NumRunningExec(t) ==
    executions[t]["starting"] + executions[t]["running"] + executions[t]["stopping"]

StoredStatus(t) == deserialize_status(cf_task_status[t]).status

StoredPosition(t) == deserialize_checkpoint(cf_task_checkpoints[t]).executing_file_position

\* The tracker's keys of the workers of task t that hold an entry.
OwnEntries(t) ==
    {PositionKey(t, w) : w \in WorkersOf(t)} \cap DOMAIN GLOBAL_LIST_FILE_POSITON_MAP

\* The entry of task t with the least offset.
MinPosition(t) ==
    LET k == CHOOSE k \in OwnEntries(t) :
                 \A j \in OwnEntries(t) :
                     GLOBAL_LIST_FILE_POSITON_MAP[k].offset <= GLOBAL_LIST_FILE_POSITON_MAP[j].offset
    IN GLOBAL_LIST_FILE_POSITON_MAP[k]

\* C1: a start_task that returned success and is followed at once by a second
\* start_task of the same id (no stop_task, the spawned future not yet returned)
\* makes the second call fail with the already-live error and spawn nothing.
C1_SecondStartFails ==
    [][\A t \in TaskIds :
          (lastCall = Call("start_task", <<t>>, "Ok") /\ NumExec(t) > 0
              /\ StepIsCall("start_task", <<t>>))
          => (lastCall'.res = "AlreadyLive" /\ executions' = executions)]_vars

\* C2: in every reachable state each task id has at most one execution spawned
\* and not yet stopped.
C2_AtMostOneLiveExecution == \A t \in TaskIds : NumExec(t) <= 1

\* C3: a snapshot cycle that logs no error persists, for every living task that has a checkpoint
\* record and at least one tracker entry, the entry with the least offset among
\* the task's entries, whatever the iteration order.
C3_SnapshotPersistsMinimum ==
    [][StepIsCall("snapshot", <<>>) =>
          \A t \in LivingIds(cf_task_status) :
              (t \in DOMAIN cf_task_checkpoints /\ OwnEntries(t) # {})
              => deserialize_checkpoint(cf_task_checkpoints'[t]).executing_file_position
                     = MinPosition(t)]_vars

\* C4: in every reachable state the persisted checkpoint offset of a task is at
\* most the reported offset of every worker of the task that has a tracker entry.
C4_CheckpointNotPastSlowestWorker ==
    \A t \in DOMAIN cf_task_checkpoints : \A k \in OwnEntries(t) :
        StoredPosition(t).offset <= GLOBAL_LIST_FILE_POSITON_MAP[k].offset

\* C5: stop_task on a task id with no entry in the live-status map returns the
\* not-living error and changes neither the stop flags, the live-status map, the
\* Position Tracker, the worker sets nor the Durable Store.
C5_StopNotStartedChangesNothing ==
    [][\A t \in TaskIds :
          (StepIsCall("stop_task", <<t>>) /\ t \notin DOMAIN GLOBAL_LIVING_TRANSFER_TASK_MAP)
          => (lastCall'.res = "NotLiving"
              /\ UNCHANGED <<store, meta_dirs, registries, executions>>)]_vars

\* C5 witness: stop_task of a defined task that never ran has returned not-living.
C5_Witness ==
    /\ lastCall = Call("stop_task", <<"t1">>, "NotLiving")
    /\ "t1" \in DOMAIN cf_task
    /\ "t1" \notin DOMAIN cf_task_status
    /\ "t1" \notin DOMAIN GLOBAL_LIVING_TRANSFER_TASK_MAP
    /\ NumExec("t1") = 0

\* C6: stop_task returns the not-living error when the task is not live, and
\* otherwise succeeds with the task's stop flag true; on a live task it fails
\* with no other error.
C6_StopHasTwoOutcomes ==
    [][\A t \in TaskIds :
          StepIsCall("stop_task", <<t>>)
          => IF ~task_is_living(t)
             THEN lastCall'.res = "NotLiving"
             ELSE /\ lastCall'.res = "Ok"
                  /\ t \in DOMAIN GLOBAL_TASK_STOP_MARK_MAP'
                  /\ GLOBAL_TASK_STOP_MARK_MAP'[t]]_vars

\* C7: a remove request that names a living task fails with the still-living
\* error and deletes neither a definition nor a metadata directory.
C7_RemoveLivingFails ==
    [][\A ids \in RemoveLists :
          (StepIsCall("remove_tasks", ids) /\ \E i \in DOMAIN ids : task_is_living(ids[i]))
          => (lastCall'.res = "StillLiving" /\ cf_task' = cf_task /\ meta_dirs' = meta_dirs)]_vars

\* C8: while the process serves requests and runs the snapshotter, every stored
\* status that is not Stopped belongs to a task whose execution has begun in this
\* process: the statuses a dead process left behind were re-marked
\* Stopped(ProcessTerminating) before the first start_task or snapshot cycle.
C8_NoStaleStatusWhileServing ==
    phase = "serving" =>
        \A t \in LivingIds(cf_task_status) : NumRunningExec(t) > 0

\* C8 witness: after a restart that re-marked the task, start_task has succeeded.
C8_Witness ==
    /\ phase = "serving"
    /\ "t1" \in DOMAIN cf_task_status
    /\ StoredStatus("t1") = "Stopped(ProcessTerminating)"
    /\ lastCall = Call("start_task", <<"t1">>, "Ok")

\* C9: start_task on a task id with no stored definition fails with the
\* not-found error, also when the id is live, spawns nothing and changes neither
\* the registries nor the Durable Store.
C9_StartUndefinedChangesNothing ==
    [][\A t \in TaskIds :
          (StepIsCall("start_task", <<t>>) /\ t \notin DOMAIN cf_task)
          => (lastCall'.res = "NotFound"
              /\ UNCHANGED <<store, meta_dirs, registries, executions>>)]_vars

\* C9 witness: start_task of a living task whose definition was removed has
\* returned not-found.
C9_Witness ==
    /\ lastCall = Call("start_task", <<"t1">>, "NotFound")
    /\ "t1" \notin DOMAIN cf_task
    /\ task_is_living("t1")

C11_SecondStopIsSafe ==
    [][\A t \in TaskIds :
          (StepIsCall("stop_task", <<t>>) /\ is_signaled(t))
          => /\ lastCall'.res \in {"Ok", "NotLiving"}
             /\ lastCall'.res = "NotLiving" => ~task_is_living(t)
             /\ t \in DOMAIN GLOBAL_TASK_STOP_MARK_MAP' /\ GLOBAL_TASK_STOP_MARK_MAP'[t]
             /\ UNCHANGED <<store, GLOBAL_LIVING_TRANSFER_TASK_MAP,
                            GLOBAL_LIST_FILE_POSITON_MAP>>]_vars

PlaceInKeyOrder(t) == CHOOSE i \in DOMAIN KeyOrder : KeyOrder[i] = t

\* C14: list_tasks returns exactly one pair (id, stored definition) for every
\* record of the definitions, in key order, and no pair for any other id; a
\* record whose read fails takes no record out of the list; the call changes
\* neither the store nor anything else.
C14_ListReturnsEveryRecord ==
    [][StepIsCall("list_tasks", <<>>)
          => LET resp == lastCall'.res
             IN /\ \A t \in DOMAIN cf_task :
                        Cardinality({i \in DOMAIN resp : resp[i].cf_id = t}) = 1
                /\ \A i \in DOMAIN resp :
                        /\ resp[i].cf_id \in DOMAIN cf_task
                        /\ resp[i].task = get_task(cf_task, resp[i].cf_id).value
                /\ \A i, j \in DOMAIN resp :
                        i < j => PlaceInKeyOrder(resp[i].cf_id) < PlaceInKeyOrder(resp[j].cf_id)
                /\ UNCHANGED <<store, meta_dirs, registries, executions>>]_vars

\* The positions of the tracker entries whose key has the task id as a prefix.
PrefixedPositions(t) ==
    {GLOBAL_LIST_FILE_POSITON_MAP[k] :
        k \in {x \in DOMAIN GLOBAL_LIST_FILE_POSITON_MAP : starts_with(x, t)}}

\* C15: in a snapshot cycle every task whose checkpoint cannot be saved or loaded
\* keeps the record it had (or none), every other living task has its checkpoint
\* written from the tracker in the same cycle, and the snapshotter stays in its
\* loop.
C15_FailureSkipsOnlyThatTask ==
    [][lastCall'.op = "snapshot"
          => /\ \A t \in LivingIds(cf_task_status) :
                    IF \E i \in DOMAIN lastCall'.arg : lastCall'.arg[i] = t
                    THEN /\ t \in DOMAIN cf_task_checkpoints' <=> t \in DOMAIN cf_task_checkpoints
                         /\ t \in DOMAIN cf_task_checkpoints
                              => cf_task_checkpoints'[t] = cf_task_checkpoints[t]
                    ELSE /\ t \in DOMAIN cf_task_checkpoints'
                         /\ StoredPosition(t)' \in
                                IF PrefixedPositions(t) = {} THEN {FilePosition(0, 0)}
                                ELSE PrefixedPositions(t)
             /\ phase' = "serving"]_vars

\* C15 witness: t10 is running, has reported and has its position in its
\* checkpoint, while t1 is running, has reported and still has the checkpoint of
\* its start, after a cycle: one in which the save of t1 failed.
C15_Witness ==
    /\ lastCall = Call("snapshot", <<"t1">>, "Ok")
    /\ executions["t1"]["running"] > 0
    /\ executions["t10"]["running"] > 0
    /\ PositionKey("t1", "w1") \in DOMAIN GLOBAL_LIST_FILE_POSITON_MAP
    /\ PositionKey("t1", "w2") \in DOMAIN GLOBAL_LIST_FILE_POSITON_MAP
    /\ PositionKey("t10", "w1") \in DOMAIN GLOBAL_LIST_FILE_POSITON_MAP
    /\ "t1" \in DOMAIN cf_task_checkpoints /\ StoredPosition("t1") = FilePosition(0, 0)
    /\ "t10" \in DOMAIN cf_task_checkpoints /\ StoredPosition("t10") # FilePosition(0, 0)

\* The task ids whose checkpoint the cycle of this step has saved.
SavedByCycle ==
    {t \in saved_in_cycle : \A i \in DOMAIN lastCall'.arg : lastCall'.arg[i] # t}

\* C16: every checkpoint a snapshot cycle saves is that of a task that is living
\* (task_is_living) and has an execution that has begun and not returned; and a
\* step that creates or changes the checkpoint record of a task is taken while
\* the task is living.
C16_CheckpointOnlyForLiveTask ==
    [][/\ lastCall'.op = "snapshot"
            => \A t \in SavedByCycle : task_is_living(t) /\ NumRunningExec(t) > 0
       /\ \A t \in DOMAIN cf_task_checkpoints' :
            (t \notin DOMAIN cf_task_checkpoints
                \/ cf_task_checkpoints'[t] # cf_task_checkpoints[t])
            => task_is_living(t) \/ task_is_living(t)']_vars

\* C16 witness: after a restart of the process in which t1 ran, a snapshot cycle
\* has run while the stored status of t1, re-marked Stopped, and its checkpoint
\* of the earlier run are in the store, and the checkpoint still holds the
\* position of that run.
C16_Witness ==
    /\ lastCall = Call("snapshot", <<>>, "Ok")
    /\ "t1" \in DOMAIN cf_task_status
    /\ StoredStatus("t1") = "Stopped(ProcessTerminating)"
    /\ "t1" \in DOMAIN cf_task_checkpoints
    /\ StoredPosition("t1") # FilePosition(0, 0)
    /\ "t1" \notin DOMAIN cf_task

\* C17: a snapshot cycle in which no save fails leaves a checkpoint record in the
\* store for every task that is living during the cycle, also for one that had
\* no record before it.
C17_CyclePersistsEveryLiveTask ==
    [][(lastCall'.op = "snapshot" /\ SavedByCycle = saved_in_cycle)
          => \A t \in TaskIds :
                 task_is_living(t) => t \in DOMAIN cf_task_checkpoints']_vars

\* C18: in every reachable state the Position Tracker holds no entry of a worker
\* of a task that has no execution begun and not yet returned.
C18_NoPositionsAfterTeardown ==
    \A t \in TaskIds :
        NumRunningExec(t) = 0
        => \A w \in WorkersOf(t) :
               PositionKey(t, w) \notin DOMAIN GLOBAL_LIST_FILE_POSITON_MAP

\* C18 witness: t1 ran, its workers reported and a cycle persisted a position,
\* and its execution has returned in the process that still serves.
C18_Witness ==
    /\ phase = "serving"
    /\ NumExec("t1") = 0
    /\ "t1" \in DOMAIN cf_task_status
    /\ StoredStatus("t1") = "Stopped(Completed)"
    /\ "t1" \in DOMAIN cf_task_checkpoints
    /\ StoredPosition("t1") = FilePosition(MaxOffset, MaxOffset)

\* The moves of the stored lifecycle state of a task: forward by one, or from
\* Stopped to Starting when the task is started again.
LifecycleMove(from, to) ==
    \/ from = to
    \/ from = "Starting" /\ to = "Running"
    \/ from = "Running" /\ to = "Stopping"
    \/ from = "Stopping" /\ to \in StoppedStates
    \/ from \in StoppedStates /\ to = "Starting"

\* C19: every step of a serving process that saves a status takes the stored
\* state of the task from nothing to Starting, or along Starting, Running,
\* Stopping, Stopped, or from Stopped to Starting; the re-marking of the statuses
\* of a dead process at the next start is no such step.
C19_LifecycleInOrder ==
    [][(phase = "serving" /\ phase' = "serving")
          => \A t \in DOMAIN cf_task_status' :
                 IF t \in DOMAIN cf_task_status
                 THEN LifecycleMove(StoredStatus(t), StoredStatus(t)')
                 ELSE StoredStatus(t)' = "Starting"]_vars

\* C20: the position a snapshot cycle saves for a task is that of a tracker
\* entry of one of the task's own workers, or (0,0) when it has none; the
\* entries of another task do not enter it, also when the task's id is a prefix
\* of the other's.
C20_CheckpointFromOwnEntriesOnly ==
    [][lastCall'.op = "snapshot"
          => \A t \in SavedByCycle :
                 StoredPosition(t)' \in
                     IF OwnEntries(t) = {} THEN {FilePosition(0, 0)}
                     ELSE {GLOBAL_LIST_FILE_POSITON_MAP[k] : k \in OwnEntries(t)}]_vars

\* C21: the stored checkpoint offset of a task does not decrease from one
\* snapshot cycle to the next; stated for the cycle that finds no tracker entry
\* for a task whose checkpoint it saves: it leaves the stored position as it was
\* and does not overwrite it with offset 0, line number 0.
C21_CycleWithoutEntriesKeepsPosition ==
    [][lastCall'.op = "snapshot"
          => \A t \in SavedByCycle :
                 PrefixedPositions(t) = {} => StoredPosition(t)' = StoredPosition(t)]_vars

\* The definition and the metadata directory of task t are as before the step.
DefinitionKept(t) ==
    /\ t \in DOMAIN cf_task' <=> t \in DOMAIN cf_task
    /\ t \in DOMAIN cf_task => cf_task'[t] = cf_task[t]
    /\ gen_file_path(GlobalMetaDir, t) \in meta_dirs'
           <=> gen_file_path(GlobalMetaDir, t) \in meta_dirs

\* The definition and the metadata directory of task t are gone after the step.
DefinitionRemoved(t) ==
    /\ t \notin DOMAIN cf_task'
    /\ gen_file_path(GlobalMetaDir, t) \notin meta_dirs'

\* The places of the list whose id has no metadata directory.
PlacesWithoutDir(ids) ==
    {i \in DOMAIN ids : gen_file_path(GlobalMetaDir, ids[i]) \notin meta_dirs}

\* C22: remove_tasks changes no status record, no checkpoint record, no registry
\* and no execution, and keeps the definition and the directory of every id that
\* is not in the list; it takes the ids in list order: when it returns Ok the
\* definition and the directory of every listed id are gone, and when it returns
\* an error it does so at the first listed id that has no directory, the ids
\* before it are removed and the definitions and directories of the ids after it
\* are as they were.
C22_RemoveTouchesOnlyListedIds ==
    [][\A ids \in RemoveLists :
          StepIsCall("remove_tasks", ids)
          => /\ UNCHANGED <<cf_task_status, cf_task_checkpoints, registries, executions>>
             /\ \A t \in TaskIds :
                    (\A i \in DOMAIN ids : ids[i] # t) => DefinitionKept(t)
             /\ IF PlacesWithoutDir(ids) = {}
                THEN /\ lastCall'.res = "Ok"
                     /\ \A i \in DOMAIN ids : DefinitionRemoved(ids[i])
                ELSE LET k == CHOOSE i \in PlacesWithoutDir(ids) :
                                  \A j \in PlacesWithoutDir(ids) : i <= j
                     IN /\ lastCall'.res # "Ok"
                        /\ \A i \in DOMAIN ids :
                               /\ i < k => DefinitionRemoved(ids[i])
                               /\ i > k => DefinitionKept(ids[i])]_vars

\* C22 witness: remove_tasks of t10, which has no directory, and then t1 has
\* returned the error, and the definition, the directory, the status and the
\* checkpoint of t1 are there.
C22_Witness ==
    /\ lastCall = Call("remove_tasks", <<"t10", "t1">>, "FilesystemError")
    /\ "t1" \in DOMAIN cf_task
    /\ gen_file_path(GlobalMetaDir, "t1") \in meta_dirs
    /\ "t1" \in DOMAIN cf_task_status
    /\ "t1" \in DOMAIN cf_task_checkpoints

\* The definition update_task stores for a supplied one: the id and the
\* directory are those of the id of the call, the rest is as supplied.
UpdatedDefinition(t, task) ==
    [task_id |-> t, meta_dir |-> gen_file_path(GlobalMetaDir, t), config |-> task.config]

\* C23: after update_task(id, definition) the record under the key id is the
\* supplied definition with its task id equal to id and its directory derived
\* from id, whatever id and directory it carried, and the records under other
\* keys are unchanged; a show_task(id) that follows returns that record and
\* changes nothing.
C23_UpdateThenShow ==
    [][\A t \in TaskIds :
          /\ StepIsCall("update_task", <<t>>)
               => /\ \A task \in InputTasks :
                        service_update_task(t, task)
                        => get_task(cf_task', t) = [ok |-> TRUE, value |-> UpdatedDefinition(t, task)]
                  /\ get_task(cf_task', t).value.task_id = t
                  /\ \A k \in TaskIds \ {t} :
                        /\ k \in DOMAIN cf_task' <=> k \in DOMAIN cf_task
                        /\ k \in DOMAIN cf_task => cf_task'[k] = cf_task[k]
                  /\ UNCHANGED <<cf_task_status, cf_task_checkpoints>>
          /\ StepIsCall("show_task", <<t>>)
               => /\ UNCHANGED <<store, meta_dirs, registries, executions>>
                  /\ lastCall'.res = get_task(cf_task, t)
                  /\ (lastCall.op = "update_task" /\ lastCall.arg = <<t>>)
                       => /\ lastCall'.res.ok
                          /\ lastCall'.res.value.task_id = t
                          /\ lastCall'.res.value.meta_dir = gen_file_path(GlobalMetaDir, t)]_vars

\* C23 witness: show_task of t10 has returned a definition of the second
\* configuration with the id and the directory of t10, while t1 has a record.
C23_Witness ==
    /\ lastCall.op = "show_task"
    /\ lastCall.arg = <<"t10">>
    /\ lastCall.res = [ok |-> TRUE,
                       value |-> [task_id |-> "t10", meta_dir |-> "meta/t10", config |-> "c2"]]
    /\ "t1" \in DOMAIN cf_task
    /\ gen_file_path(GlobalMetaDir, "t10") \notin meta_dirs

====
